---- MODULE Spec2Model ----
(***************************************************************************)
(* Model of the task-routing Orchestrator (src/orchestrator.py), the agent *)
(* contract it dispatches to (src/agents/*.py) and the model backend       *)
(* adapters (src/llm/llm_connector.py).                                    *)
(*                                                                         *)
(* Python values are modelled as follows: a dict is a record (a function   *)
(* from field names), None is the record None, a bool is a BOOLEAN, a      *)
(* message is a string, and a text produced by a language model is a       *)
(* sequence of tokens (see the parsing section).                           *)
(***************************************************************************)
EXTENDS Integers, Sequences, FiniteSets, TLC

VARIABLES
    agents,          \* Orchestrator.agents: dict agent_id -> agent instance
    groq_connector,  \* main.py: the GroqConnector instance, or "None"
    last,            \* the last Orchestrator method called, with its outcome
    call,            \* the process_task coroutine followed: its position, its locals
                     \* and what its environment answered (lib, http, awaited)
    vectorstore,     \* RAGAgent.vectorstore: the index held, or None
    index_files      \* the indexes saved on disk: dict path -> index

vars == <<agents, groq_connector, last, call, vectorstore, index_files>>

-----------------------------------------------------------------------------
(* Python values *)

None == [py_none |-> TRUE]

\* dict.get(key, default)
Get(d, k, default) == IF k \in DOMAIN d THEN d[k] ELSE default

\* {**d, k: v} for one key
Upd(d, k, v) == [x \in DOMAIN d \cup {k} |-> IF x = k THEN v ELSE d[x]]

\* del d[k]
Del(d, k) == [x \in DOMAIN d \ {k} |-> d[x]]

EmptyDict == [x \in {} |-> None]

-----------------------------------------------------------------------------
(* Outcomes of a Python call, and truthiness *)

\* the call returned v
Return(v) == [kind |-> "return", value |-> v]

\* the call raised an exception e with str(e) = msg
Raise(msg) == [kind |-> "raise", exc |-> msg]

\* a bool
PyBool(b) == [bool |-> b]

\* the coroutine object a call of an `async def` returns; its body has not run
Coroutine(fn) == [coroutine |-> fn]

\* bool(v): None and False are falsy, any other object here is truthy
Truthy(v) ==
    IF "py_none" \in DOMAIN v THEN FALSE
    ELSE IF "bool" \in DOMAIN v THEN v.bool
    ELSE TRUE

-----------------------------------------------------------------------------
(* The agent instances and their adapters *)

\* the ids used by the application at start-up
AgentIds == {"readme", "code", "debug", "rag"}

\* the four instances built at start-up, and one instance of some other
\* BaseAgent subclass bound to an adapter that follows the LLMConnector
\* interface as declared (synchronous check_status returning a bool)
AgentObjs == {"readme_generator", "code_assistant", "debug_assistant",
              "rag_agent", "custom_agent"}

\* self.name
AgentName(a) ==
    CASE a = "readme_generator" -> "ReadmeGenerator"
      [] a = "code_assistant"   -> "CodeAssistant"
      [] a = "debug_assistant"  -> "DebugAssistant"
      [] a = "rag_agent"        -> "RAGAgent"
      [] OTHER                  -> "BaseAgent"

\* self.description
AgentDescription(a) ==
    CASE a = "readme_generator" -> "Agent spécialisé dans la génération de README pour les projets"
      [] a = "code_assistant"   -> "Agent spécialisé dans l'amélioration et le débogage de code Python"
      [] a = "debug_assistant"  -> "Agent spécialisé dans l'analyse et le débogage de code Python"
      [] a = "rag_agent"        -> "Agent for document Q&A using Retrieval-Augmented Generation"
      [] OTHER                  -> "Agent générique"

\* self.llm_connector: the class of the adapter the instance was built with
LlmConnector(a, groq) ==
    CASE a \in {"readme_generator", "code_assistant", "debug_assistant"} -> "OllamaConnector"
      [] a = "rag_agent"  -> groq
      [] OTHER            -> "LLMConnector"

\* BaseAgent.get_info
get_info(a) == [name |-> AgentName(a), description |-> AgentDescription(a)]

-----------------------------------------------------------------------------
(* Orchestrator: the registry *)

register_agent_keep_first(reg, agent_id, agent) ==
    IF agent_id \in DOMAIN reg THEN reg ELSE Upd(reg, agent_id, agent)

\* Orchestrator.register_agent: self.agents[agent_id] = agent
register_agent(reg, agent_id, agent) == Upd(reg, agent_id, agent)

unregister_agent_clear_all(reg, agent_id) ==
    [agents |-> IF agent_id \in DOMAIN reg THEN EmptyDict ELSE reg,
     out |-> Return(None)]

unregister_agent_unguarded(reg, agent_id) ==
    IF agent_id \in DOMAIN reg
    THEN [agents |-> Del(reg, agent_id), out |-> Return(None)]
    ELSE [agents |-> reg, out |-> Raise("KeyError: " \o agent_id)]

\* Orchestrator.unregister_agent: del self.agents[agent_id] when the id is
\* present; the registry after the call and the outcome of the call
unregister_agent(reg, agent_id) ==
    [agents |-> IF agent_id \in DOMAIN reg THEN Del(reg, agent_id) ELSE reg,
     out |-> Return(None)]

\* the iteration orders of a dict with these keys
Orders(keys) ==
    {o \in [1..Cardinality(keys) -> keys] :
        \A i, j \in 1..Cardinality(keys) : i # j => o[i] # o[j]}

get_registered_agents_skip_last(reg, order) ==
    [i \in 1..(Len(order) - 1) |->
        [id |-> order[i],
         name |-> get_info(reg[order[i]]).name,
         description |-> get_info(reg[order[i]]).description]]

\* Orchestrator.get_registered_agents: one {"id": id, **agent.get_info()}
\* per item of self.agents, in the dict's iteration order
get_registered_agents(reg, order) ==
    [i \in 1..Len(order) |->
        [id |-> order[i],
         name |-> get_info(reg[order[i]]).name,
         description |-> get_info(reg[order[i]]).description]]

-----------------------------------------------------------------------------
(* Texts: a str produced by or derived from a model response is a sequence *)
(* of tokens.  FENCE stands for three backticks, PY for the word python,   *)
(* WS for one whitespace character, any other token for other characters.  *)

FENCE == "[fence]"
PY == "python"
WS == " "

\* a str literal as a text
Lit(s) == IF s = "" THEN <<>> ELSE <<s>>

\* a str boxed, for the fields that hold a str or None
Str(t) == [str |-> t]

RECURSIVE LStrip(_)
LStrip(t) == IF t # <<>> /\ Head(t) = WS THEN LStrip(Tail(t)) ELSE t

RECURSIVE RStrip(_)
RStrip(t) ==
    IF t # <<>> /\ t[Len(t)] = WS THEN RStrip(SubSeq(t, 1, Len(t) - 1)) ELSE t

\* str.strip()
Strip(t) == RStrip(LStrip(t))

\* the positions where ```python starts
Openings(t) == {i \in 1..(Len(t) - 1) : t[i] = FENCE /\ t[i + 1] = PY}

\* the positions of a ``` that can close a block opened at i
Closings(t, i) == {j \in (i + 2)..Len(t) : t[j] = FENCE}

Min(S) == CHOOSE x \in S : \A y \in S : x <= y

\* code_pattern.search(response), for FENCE PY \s* (.*?) \s* FENCE with DOTALL:
\* the leftmost opening that has a closing fence, lazily closed at the first
\* one; None when there is no match.  start and end are match.start() and
\* match.end() (end is the last position of the match), group is group(1)
CodeMatch(t) ==
    LET opens == {i \in Openings(t) : Closings(t, i) # {}}
    IN  IF opens = {} THEN None
        ELSE LET i == Min(opens)
                 j == Min(Closings(t, i))
             IN  [start |-> i, end |-> j,
                  group |-> Strip(SubSeq(t, i + 2, j - 1))]

_parse_llm_response_keep_fence(response) ==
    LET m == CodeMatch(response)
    IN  IF m # None
        THEN LET explanation == Strip(SubSeq(response, m.end + 1, Len(response)))
             IN  <<SubSeq(response, m.start, m.end),
                   IF explanation = <<>>
                   THEN Strip(SubSeq(response, 1, m.start - 1))
                   ELSE explanation>>
        ELSE <<response, <<>>>>

_parse_llm_response_fallback_stripped(response) ==
    LET m == CodeMatch(response)
    IN  IF m # None
        THEN LET explanation == Strip(SubSeq(response, m.end + 1, Len(response)))
             IN  <<Strip(m.group),
                   IF explanation = <<>>
                   THEN Strip(SubSeq(response, 1, m.start - 1))
                   ELSE explanation>>
        ELSE <<Strip(response), <<>>>>

\* CodeAssistant._parse_llm_response: (improved_code, explanation)
_parse_llm_response(response) ==
    LET m == CodeMatch(response)
    IN  IF m # None
        THEN LET explanation == Strip(SubSeq(response, m.end + 1, Len(response)))
             IN  <<Strip(m.group),
                   IF explanation = <<>>
                   THEN Strip(SubSeq(response, 1, m.start - 1))
                   ELSE explanation>>
        ELSE <<response, <<>>>>

\* CodeAssistant._parse_debug_response: (debug_report, fixed_code)
_parse_debug_response(response) ==
    LET m == CodeMatch(response)
    IN  IF m # None
        THEN LET debug_report == Strip(SubSeq(response, 1, m.start - 1))
             IN  <<IF debug_report = <<>>
                   THEN Strip(SubSeq(response, m.end + 1, Len(response)))
                   ELSE debug_report,
                   Strip(m.group)>>
        ELSE <<response, <<>>>>

-----------------------------------------------------------------------------
(* Model backend adapters *)

\* what the backend answers: it serves the model, it is reachable but does
\* not list the model, or the network call fails
BackendStates == {"up", "model_missing", "down"}

\* OllamaConnector.check_status, the body of the coroutine: GET /api/tags,
\* membership of model_name in the listed models, False on any exception
OllamaConnector_check_status(backend) ==
    CASE backend = "down"          -> Return(PyBool(FALSE))
      [] backend = "model_missing" -> Return(PyBool(FALSE))
      [] OTHER                     -> Return(PyBool(TRUE))

\* LLMConnector.check_status as declared: a plain method returning whether
\* the model is available
LLMConnector_check_status(backend) == Return(PyBool(backend = "up"))

\* GroqConnector.check_status (llm/groq_connector.py): a bool, never raises
GroqConnector_check_status(backend) == Return(PyBool(backend = "up"))

\* the verdict of the adapter's availability check, once it has run
AdapterReportsAvailable(conn, backend) ==
    CASE conn = "OllamaConnector" -> OllamaConnector_check_status(backend).value.bool
      [] conn = "GroqConnector"   -> GroqConnector_check_status(backend).value.bool
      [] OTHER                    -> LLMConnector_check_status(backend).value.bool

check_status_none_passes(a, groq, backend) ==
    LET conn == LlmConnector(a, groq)
    IN  CASE conn = "None" -> Return(PyBool(TRUE))
          [] conn = "OllamaConnector" ->
               Return(Coroutine("OllamaConnector.check_status"))
          [] conn = "GroqConnector"   -> GroqConnector_check_status(backend)
          [] OTHER                    -> LLMConnector_check_status(backend)

\* BaseAgent.check_status: return self.llm_connector.check_status(), a plain
\* call.  OllamaConnector.check_status is an `async def`, so the call returns
\* a coroutine object and runs nothing; with no adapter bound the attribute
\* access raises AttributeError
check_status(a, groq, backend) ==
    LET conn == LlmConnector(a, groq)
    IN  CASE conn = "None" ->
               Raise("'NoneType' object has no attribute 'check_status'")
          [] conn = "OllamaConnector" ->
               Return(Coroutine("OllamaConnector.check_status"))
          [] conn = "GroqConnector"   -> GroqConnector_check_status(backend)
          [] OTHER                    -> LLMConnector_check_status(backend)

\* the answer to POST /api/generate: the request failed (network error or an
\* error status), or it carries a JSON object
HttpError == [status |-> "error"]
HttpOk(json) == [status |-> "ok", json |-> json]

\* OllamaConnector.generate: result["response"] when present, "" when the
\* JSON lacks it, and the exception re-raised when the request failed
OllamaConnector_generate(http) ==
    IF http.status = "error" THEN Raise("All connection attempts failed")
    ELSE IF "response" \in DOMAIN http.json THEN Return(http.json.response)
    ELSE Return(<<>>)

-----------------------------------------------------------------------------
(* Agents.  process runs to its first await: it returns, raises, or is     *)
(* suspended on the adapter's generate; it is resumed with the outcome.    *)

\* the coroutine is suspended awaiting fn
Await(fn, args) == [kind |-> "await", fn |-> fn, args |-> args]

\* CodeAssistant._build_code_prompt: the task description chosen by task_type
TaskDescription(task_type) ==
    CASE task_type = "correction"   -> "Corrige les erreurs dans le code tout en préservant sa fonctionnalité originale."
      [] task_type = "optimisation" -> "Optimise le code pour améliorer ses performances (vitesse d'exécution, utilisation de la mémoire)."
      [] task_type = "refactoring"  -> "Réorganise le code pour améliorer sa lisibilité et sa maintenabilité sans changer son comportement."
      [] task_type = "pep8"         -> "Modifie le code pour respecter les conventions de style PEP 8 de Python."
      [] task_type = "debug"        -> "Identifie les problèmes potentiels dans le code et propose des solutions."
      [] OTHER                      -> "Améliore le code Python fourni."

CodeAssistant_process_no_empty_check(data) ==
    Await("generate",
          [prompt |-> [task_desc |-> TaskDescription(Get(data, "task_type", "correction")),
                       code |-> Get(data, "code", ""),
                       context |-> Get(data, "context", "")],
           max_tokens |-> "2048", temperature |-> "0.2"])

\* CodeAssistant.process, to the await of generate
CodeAssistant_process(data) ==
    LET code == Get(data, "code", "")
        task_type == Get(data, "task_type", "correction")
    IN  IF code = ""
        THEN Return([improved_code |-> <<>>,
                     explanation |-> Lit("Aucun code fourni à améliorer."),
                     success |-> FALSE,
                     message |-> "Erreur: code manquant"])
        ELSE Await("generate",
                   [prompt |-> [task_desc |-> TaskDescription(task_type),
                                code |-> code,
                                context |-> Get(data, "context", "")],
                    max_tokens |-> "2048", temperature |-> "0.2"])

CodeAssistant_process_resume_reraise(data, gen) ==
    IF gen.kind = "raise" THEN gen
    ELSE LET parsed == _parse_llm_response(gen.value)
         IN  Return([improved_code |-> parsed[1],
                     explanation |-> parsed[2],
                     success |-> TRUE,
                     message |-> "Code " \o Get(data, "task_type", "correction")
                                         \o " effectué avec succès"])

\* CodeAssistant.process, from the outcome of generate to the return
CodeAssistant_process_resume(data, gen) ==
    IF gen.kind = "raise"
    THEN Return([improved_code |-> <<>>,
                 explanation |-> <<>>,
                 success |-> FALSE,
                 message |-> "Erreur lors de l'amélioration du code: " \o gen.exc])
    ELSE LET parsed == _parse_llm_response(gen.value)
         IN  Return([improved_code |-> parsed[1],
                     explanation |-> parsed[2],
                     success |-> TRUE,
                     message |-> "Code " \o Get(data, "task_type", "correction")
                                         \o " effectué avec succès"])

\* CodeAssistant.generate_debug_report, to the await of generate
generate_debug_report(code, error_message) ==
    IF code = ""
    THEN Return([debug_report |-> <<>>,
                 fixed_code |-> <<>>,
                 success |-> FALSE,
                 message |-> "Aucun code fourni à déboguer"])
    ELSE Await("generate",
               [prompt |-> [code |-> code, error_message |-> error_message],
                max_tokens |-> "2048", temperature |-> "0.3"])

\* CodeAssistant.generate_debug_report, from the outcome of generate to the
\* return
generate_debug_report_resume(gen) ==
    IF gen.kind = "raise"
    THEN Return([debug_report |-> <<>>,
                 fixed_code |-> <<>>,
                 success |-> FALSE,
                 message |-> "Erreur lors de la génération du rapport de debug: "
                             \o gen.exc])
    ELSE LET parsed == _parse_debug_response(gen.value)
         IN  Return([debug_report |-> parsed[1],
                     fixed_code |-> parsed[2],
                     success |-> TRUE,
                     message |-> "Rapport de debug généré avec succès"])

\* DebugAssistant.process, to the await of generate
DebugAssistant_process(data) ==
    LET code == Get(data, "code", "")
    IN  IF code = ""
        THEN Return([debug_report |-> <<>>,
                     success |-> FALSE,
                     message |-> "Aucun code fourni à analyser."])
        ELSE Await("generate",
                   [prompt |-> [code |-> code,
                                error_message |-> Get(data, "error_message", ""),
                                context |-> Get(data, "context", "")],
                    max_tokens |-> "2048", temperature |-> "0.2"])

\* DebugAssistant.process, from the outcome of generate to the return
DebugAssistant_process_resume(data, gen) ==
    IF gen.kind = "raise"
    THEN Return([debug_report |-> <<>>,
                 success |-> FALSE,
                 message |-> "Erreur lors de la génération du rapport de debug: "
                             \o gen.exc])
    ELSE Return([debug_report |-> gen.value,
                 success |-> TRUE,
                 message |-> "Rapport de debug généré avec succès"])

\* ReadmeGenerator.process, to the await of generate
ReadmeGenerator_process(data) ==
    Await("generate",
          [prompt |-> [project_name |-> Get(data, "project_name", ""),
                       project_description |-> Get(data, "project_description", "")],
           max_tokens |-> "3000", temperature |-> "0.7"])

ReadmeGenerator_process_resume_swallow(data, gen) ==
    Return([content |-> IF gen.kind = "raise" THEN <<>> ELSE gen.value,
            success |-> TRUE,
            message |-> "README généré avec succès pour le projet "
                        \o Get(data, "project_name", "")])

\* ReadmeGenerator.process, from the outcome of generate to the return
ReadmeGenerator_process_resume(data, gen) ==
    IF gen.kind = "raise"
    THEN Return([content |-> <<>>,
                 success |-> FALSE,
                 message |-> "Erreur lors de la génération du README: " \o gen.exc])
    ELSE Return([content |-> gen.value,
                 success |-> TRUE,
                 message |-> "README généré avec succès pour le projet "
                             \o Get(data, "project_name", "")])

\* an index built by FAISS.from_documents from the chunks of a document
Index(file_path) == [built_from |-> file_path]

\* what the external libraries do in a call: they succeed, or one raises
LibOk == [lib |-> "ok", chunks |-> 2, images |-> 1]
LibError == [lib |-> "error", exc |-> "library error"]
LibOutcomes == {LibOk, LibError}

process_document_clears_on_error(file_path, vs, ext) ==
    IF ext.lib = "error"
    THEN [out |-> Return([success |-> FALSE,
                          message |-> "Error processing document: " \o ext.exc,
                          document_info |-> None]),
          vectorstore |-> None]
    ELSE [out |-> Return([success |-> TRUE,
                          message |-> "Document processed successfully: "
                                      \o ToString(ext.chunks) \o " chunks created",
                          document_info |-> [chunks |-> ext.chunks,
                                             images |-> ext.images]]),
          vectorstore |-> Index(file_path)]

\* RAGAgent.process_document: the index is assigned once built
process_document(file_path, vs, ext) ==
    IF ext.lib = "error"
    THEN [out |-> Return([success |-> FALSE,
                          message |-> "Error processing document: " \o ext.exc,
                          document_info |-> None]),
          vectorstore |-> vs]
    ELSE [out |-> Return([success |-> TRUE,
                          message |-> "Document processed successfully: "
                                      \o ToString(ext.chunks) \o " chunks created",
                          document_info |-> [chunks |-> ext.chunks,
                                             images |-> ext.images]]),
          vectorstore |-> Index(file_path)]

\* RAGAgent.save_index
save_index(index_path, vs, disk, ext) ==
    IF vs = None
    THEN [out |-> Return([success |-> FALSE,
                          message |-> "No index to save. Process a document first."]),
          index_files |-> disk]
    ELSE IF ext.lib = "error"
    THEN [out |-> Return([success |-> FALSE,
                          message |-> "Error saving index: " \o ext.exc]),
          index_files |-> disk]
    ELSE [out |-> Return([success |-> TRUE,
                          message |-> "Index saved successfully to " \o index_path]),
          index_files |-> Upd(disk, index_path, vs)]

load_index_keep_current(index_path, vs, disk, ext) ==
    IF ext.lib = "error" \/ index_path \notin DOMAIN disk
    THEN [out |-> Return([success |-> FALSE,
                          message |-> "Error loading index: "
                                      \o (IF ext.lib = "error" THEN ext.exc
                                          ELSE "could not open " \o index_path)]),
          vectorstore |-> vs]
    ELSE [out |-> Return([success |-> TRUE,
                          message |-> "Index loaded successfully from " \o index_path]),
          vectorstore |-> vs]

\* RAGAgent.load_index: FAISS.load_local raises when nothing is saved there
load_index(index_path, vs, disk, ext) ==
    IF ext.lib = "error" \/ index_path \notin DOMAIN disk
    THEN [out |-> Return([success |-> FALSE,
                          message |-> "Error loading index: "
                                      \o (IF ext.lib = "error" THEN ext.exc
                                          ELSE "could not open " \o index_path)]),
          vectorstore |-> vs]
    ELSE [out |-> Return([success |-> TRUE,
                          message |-> "Index loaded successfully from " \o index_path]),
          vectorstore |-> disk[index_path]]

\* RAGAgent.process, the query path: RetrievalQA over self.vectorstore
rag_query(data, vs, ext) ==
    LET query == Get(data, "query", "")
    IN  IF query = ""
        THEN Return([success |-> FALSE, message |-> "No query provided",
                     answer |-> None])
        ELSE IF vs = None
        THEN Return([success |-> FALSE,
                     message |-> "No document has been processed. Process a document first.",
                     answer |-> None])
        ELSE IF ext.lib = "error"
        THEN Return([success |-> FALSE,
                     message |-> "Error processing query: " \o ext.exc,
                     answer |-> None])
        ELSE Return([success |-> TRUE,
                     message |-> "Query processed successfully",
                     answer |-> Str(<<"answer from", vs.built_from>>),
                     sources |-> <<[source |-> "chunk_0", content |-> vs.built_from]>>])

\* RAGAgent.process: no await suspends it, it runs to its return
RAGAgent_process(data, vs, disk, ext) ==
    LET operation == Get(data, "operation", "query")
    IN  IF operation = "process" /\ "file_path" \in DOMAIN data
        THEN LET r == process_document(data.file_path, vs, ext)
             IN  [out |-> r.out, vectorstore |-> r.vectorstore, index_files |-> disk]
        ELSE IF operation = "save" /\ "index_path" \in DOMAIN data
        THEN LET r == save_index(data.index_path, vs, disk, ext)
             IN  [out |-> r.out, vectorstore |-> vs, index_files |-> r.index_files]
        ELSE IF operation = "load" /\ "index_path" \in DOMAIN data
        THEN LET r == load_index(data.index_path, vs, disk, ext)
             IN  [out |-> r.out, vectorstore |-> r.vectorstore, index_files |-> disk]
        ELSE [out |-> rag_query(data, vs, ext), vectorstore |-> vs,
              index_files |-> disk]

\* BaseAgent.process, abstract: another subclass does some awaited work and
\* then returns a result or raises
BaseAgent_process(data) == Await("work", data)

\* what the work of such a subclass can end in
WorkOutcomes ==
    {Return([success |-> TRUE, message |-> "done"]),
     Return([success |-> FALSE, message |-> "failed"]),
     Raise("boom")}

\* agent.process(data) to its first await, by the class of the instance
agent_process(agent, data, vs, disk, ext) ==
    CASE agent = "code_assistant" ->
           [out |-> CodeAssistant_process(data), vectorstore |-> vs, index_files |-> disk]
      [] agent = "debug_assistant" ->
           [out |-> DebugAssistant_process(data), vectorstore |-> vs, index_files |-> disk]
      [] agent = "readme_generator" ->
           [out |-> ReadmeGenerator_process(data), vectorstore |-> vs, index_files |-> disk]
      [] agent = "rag_agent" -> RAGAgent_process(data, vs, disk, ext)
      [] OTHER ->
           [out |-> BaseAgent_process(data), vectorstore |-> vs, index_files |-> disk]

\* agent.process(data) from the outcome of what it awaited
agent_process_resume(agent, data, awaited) ==
    CASE agent = "code_assistant"   -> CodeAssistant_process_resume(data, awaited)
      [] agent = "debug_assistant"  -> DebugAssistant_process_resume(data, awaited)
      [] agent = "readme_generator" -> ReadmeGenerator_process_resume(data, awaited)
      [] OTHER                      -> awaited

-----------------------------------------------------------------------------
(* Orchestrator.process_task *)

\* the envelope of the branch `agent_id not in self.agents`
NotFound(agent_id) ==
    [success |-> FALSE, message |-> "Agent non trouvé: " \o agent_id, result |-> None]

Unavailable_no_result_field(agent_id) ==
    [success |-> FALSE, message |-> "Agent " \o agent_id \o " non disponible"]

\* the envelope of the branch `not agent.check_status()`
Unavailable(agent_id) ==
    [success |-> FALSE, message |-> "Agent " \o agent_id \o " non disponible",
     result |-> None]

Processed_inner_success(agent_id, result) ==
    [success |-> result.success, message |-> "Tâche traitée par " \o agent_id,
     result |-> result]

\* the envelope returned after `result = await agent.process(data)`
Processed(agent_id, result) ==
    [success |-> TRUE, message |-> "Tâche traitée par " \o agent_id, result |-> result]

except_Exception_reraise(agent_id, exc) == Raise(exc)

\* the handler `except Exception as e` around the check and the dispatch;
\* every exception raised in the model is an instance of Exception
except_Exception(agent_id, exc) ==
    Return([success |-> FALSE, message |-> "Erreur lors du traitement: " \o exc,
            result |-> None])

\* the end of process_task, from the outcome of `await agent.process(data)`
process_task_return(agent_id, processed) ==
    IF processed.kind = "raise"
    THEN except_Exception(agent_id, processed.exc)
    ELSE Return(Processed(agent_id, processed.value))

\* what the adapter bound to the agent reports when its check runs
AdapterStatus(agent, groq, backend) ==
    IF LlmConnector(agent, groq) = "None" THEN "no adapter"
    ELSE IF AdapterReportsAvailable(LlmConnector(agent, groq), backend)
    THEN "available" ELSE "unavailable"

\* the locals of process_task when the lookup fails
NotLookedUp(vs, disk) ==
    [agent |-> "", adapter |-> "not looked up", status |-> None, processed |-> None,
     vectorstore |-> vs, index_files |-> disk]

\* the dispatch: `result = await agent.process(data)` and what follows, to
\* the return or to the suspension of the await
dispatch(agent, groq, agent_id, data, backend, status, steps, vs, disk, ext) ==
    LET p == agent_process(agent, data, vs, disk, ext)
    IN  [out |-> IF p.out.kind = "await" THEN p.out
                 ELSE process_task_return(agent_id, p.out),
         agent |-> agent, adapter |-> AdapterStatus(agent, groq, backend),
         status |-> status,
         processed |-> IF p.out.kind = "await" THEN None ELSE p.out,
         steps |-> IF p.out.kind = "await" THEN steps \o <<"process">>
                   ELSE steps \o <<"process", "envelope">>,
         vectorstore |-> p.vectorstore, index_files |-> p.index_files]

process_task_checked_retry(agent, groq, agent_id, data, backend, vs, disk, ext) ==
    LET status == check_status(agent, groq, backend)
    IN  IF status.kind = "raise" \/ ~Truthy(status.value)
        THEN [out |-> IF status.kind = "raise"
                      THEN except_Exception(agent_id, status.exc)
                      ELSE Return(Unavailable(agent_id)),
              agent |-> agent, adapter |-> AdapterStatus(agent, groq, backend),
              status |-> status, processed |-> None,
              steps |-> <<"lookup", "check_status", "check_status", "envelope">>,
              vectorstore |-> vs, index_files |-> disk]
        ELSE dispatch(agent, groq, agent_id, data, backend, status,
                      <<"lookup", "check_status">>, vs, disk, ext)

\* Orchestrator.process_task from `agent = self.agents[agent_id]`, inside the
\* try: the liveness check, then the dispatch
process_task_checked(agent, groq, agent_id, data, backend, vs, disk, ext) ==
    LET status == check_status(agent, groq, backend)
        checked == [agent |-> agent,
                    adapter |-> AdapterStatus(agent, groq, backend),
                    status |-> status, processed |-> None,
                    steps |-> <<"lookup", "check_status", "envelope">>,
                    vectorstore |-> vs, index_files |-> disk]
    IN  IF status.kind = "raise"
        THEN [out |-> except_Exception(agent_id, status.exc)] @@ checked
        ELSE IF ~Truthy(status.value)
        THEN [out |-> Return(Unavailable(agent_id))] @@ checked
        ELSE dispatch(agent, groq, agent_id, data, backend, status,
                      <<"lookup", "check_status">>, vs, disk, ext)

process_task_lookup_raises(reg, groq, agent_id, data, backend, vs, disk, ext) ==
    IF agent_id \notin DOMAIN reg
    THEN [out |-> Raise("KeyError: " \o agent_id), steps |-> <<"lookup">>]
            @@ NotLookedUp(vs, disk)
    ELSE process_task_checked(reg[agent_id], groq, agent_id, data, backend,
                              vs, disk, ext)

\* Orchestrator.process_task, to its return or to the suspension of
\* `await agent.process(data)`: lookup, liveness check, dispatch, envelope.
\* The result holds the outcome (out), the locals (agent, the outcome status
\* of agent.check_status(), the outcome processed of agent.process(data)),
\* the steps taken in order, and the agent's state after the call
process_task(reg, groq, agent_id, data, backend, vs, disk, ext) ==
    IF agent_id \notin DOMAIN reg
    THEN [out |-> Return(NotFound(agent_id)), steps |-> <<"lookup", "envelope">>]
            @@ NotLookedUp(vs, disk)
    ELSE process_task_checked(reg[agent_id], groq, agent_id, data, backend,
                              vs, disk, ext)

-----------------------------------------------------------------------------
(* Inputs *)

\* the calls process_task(agent_id, data) made: under each id the request
\* mappings of its endpoint, and the empty mapping
TaskInputs ==
    {<<"readme", [project_name |-> "Foo", project_description |-> "Bar"]>>,
     <<"code", [code |-> "", task_type |-> "correction"]>>,
     <<"code", [code |-> "x = 1", task_type |-> "correction"]>>,
     <<"code", EmptyDict>>,
     <<"debug", [code |-> ""]>>,
     <<"debug", [code |-> "x = 1", error_message |-> "NameError"]>>,
     <<"rag", [query |-> "X"]>>,
     <<"rag", [query |-> ""]>>,
     <<"rag", [operation |-> "process", query |-> "X"]>>,
     <<"rag", [operation |-> "process", file_path |-> "doc.pdf"]>>,
     <<"rag", [operation |-> "save", index_path |-> "idx"]>>,
     <<"rag", [operation |-> "load", index_path |-> "idx"]>>,
     <<"rag", EmptyDict>>}

\* the texts the model answers with
Responses ==
    {<<"text">>,
     <<FENCE, PY, WS, "code", WS, FENCE, WS, "why">>}

\* the answers of the backend to a generation request
HttpOutcomes ==
    {HttpError, HttpOk([model |-> "mistral"])}
        \cup {HttpOk([response |-> r]) : r \in Responses}

\* the registrations made at start-up (main.py), and the other instance
\* registered under an id in use
Registrations ==
    {<<"readme", "readme_generator">>, <<"code", "code_assistant">>,
     <<"debug", "debug_assistant">>, <<"rag", "rag_agent">>,
     <<"code", "custom_agent">>}

-----------------------------------------------------------------------------
(* The state machine *)

IdleCall ==
    [pc |-> "idle", agent_id |-> "", data |-> EmptyDict, agent |-> "",
     adapter |-> "not looked up", status |-> None, processed |-> None,
     steps |-> <<>>, out |-> None, lib |-> None, http |-> None, awaited |-> None,
     registered_at_return |-> ""]

Init ==
    /\ agents = EmptyDict
    /\ groq_connector \in {"None", "GroqConnector"}
    /\ last = [op |-> "init"]
    /\ call = IdleCall
    /\ vectorstore = None
    /\ index_files = EmptyDict

\* orchestrator.register_agent(agent_id, agent)
RegisterAgent(agent_id, agent) ==
    /\ agents' = register_agent(agents, agent_id, agent)
    /\ last' = [op |-> "register_agent", agent_id |-> agent_id, agent |-> agent,
                before |-> agents, out |-> Return(None)]
    /\ UNCHANGED <<groq_connector, call, vectorstore, index_files>>

\* orchestrator.unregister_agent(agent_id); registered records the
\* register_agent call of the same id when that is the call just before
UnregisterAgent(agent_id) ==
    /\ \E r \in {unregister_agent(agents, agent_id)} :
          /\ agents' = r.agents
          /\ last' = [op |-> "unregister_agent", agent_id |-> agent_id,
                      before |-> agents, out |-> r.out,
                      registered |->
                          IF last.op = "register_agent" /\ last.agent_id = agent_id
                          THEN [agent |-> last.agent, before |-> last.before]
                          ELSE None]
    /\ UNCHANGED <<groq_connector, call, vectorstore, index_files>>

GetRegisteredAgents_consuming ==
    /\ \E order \in Orders(DOMAIN agents) :
          last' = [op |-> "get_registered_agents",
                   out |-> Return(get_registered_agents(agents, order))]
    /\ agents' = EmptyDict
    /\ UNCHANGED <<groq_connector, call, vectorstore, index_files>>

\* orchestrator.get_registered_agents(); the dict is iterated in the order
\* of insertion of its keys, which the model leaves open
GetRegisteredAgents ==
    /\ \E order \in Orders(DOMAIN agents) :
          last' = [op |-> "get_registered_agents",
                   out |-> Return(get_registered_agents(agents, order))]
    /\ UNCHANGED <<agents, groq_connector, call, vectorstore, index_files>>

\* the states of the backend that a call for agent_id can tell apart: no
\* adapter is asked anything when the id is not registered
BackendsAsked(agent_id) ==
    IF agent_id \in DOMAIN agents THEN BackendStates ELSE {"up"}

\* the outcomes of the libraries that a call for agent_id can tell apart:
\* only the RAG agent calls them
LibrariesCalled(agent_id) ==
    IF agent_id \in DOMAIN agents /\ agents[agent_id] = "rag_agent"
    THEN LibOutcomes ELSE {LibOk}

\* a coroutine process_task(agent_id, data) starts, once the one followed
\* before it has returned, and runs to its return or to its suspension
ProcessTask(agent_id, data) ==
    /\ call.pc \in {"idle", "done"}
    /\ \E backend \in BackendsAsked(agent_id), ext \in LibrariesCalled(agent_id) :
          \E r \in {process_task(agents, groq_connector, agent_id, data, backend,
                                 vectorstore, index_files, ext)} :
              /\ call' = [pc |-> IF r.out.kind = "await" THEN "awaiting" ELSE "done",
                          agent_id |-> agent_id, data |-> data, agent |-> r.agent,
                          adapter |-> r.adapter, status |-> r.status,
                          processed |-> r.processed, steps |-> r.steps,
                          out |-> r.out,
                          lib |-> IF r.agent = "rag_agent" THEN ext ELSE None,
                          http |-> None, awaited |-> None,
                          registered_at_return |-> Get(agents, agent_id, "")]
              /\ vectorstore' = r.vectorstore
              /\ index_files' = r.index_files
    /\ last' = [op |-> "process_task", registered |-> agent_id \in DOMAIN agents]
    /\ UNCHANGED <<agents, groq_connector>>

\* the outcomes of what a suspended call awaits: for generate, the answer
\* of the backend (http) and what generate makes of it (out)
AwaitedOutcomes(fn) ==
    IF fn = "generate"
    THEN {[http |-> http, out |-> OllamaConnector_generate(http)] :
              http \in HttpOutcomes}
    ELSE {[http |-> None, out |-> w] : w \in WorkOutcomes}

ProcessTaskResume_relookup ==
    /\ call.pc = "awaiting"
    /\ \E awaited \in AwaitedOutcomes(call.out.fn) :
          \E processed \in {agent_process_resume(Get(agents, call.agent_id, "custom_agent"),
                                                 call.data, awaited.out)} :
              call' = [call EXCEPT !.pc = "done",
                                   !.processed = processed,
                                   !.http = awaited.http,
                                   !.awaited = awaited.out,
                                   !.registered_at_return =
                                       Get(agents, call.agent_id, ""),
                                   !.steps = @ \o <<call.out.fn, "envelope">>,
                                   !.out = process_task_return(call.agent_id, processed)]
    /\ UNCHANGED <<agents, groq_connector, last, vectorstore, index_files>>

\* what the suspended call awaits completes: the agent's process runs to its
\* end and process_task returns
ProcessTaskResume ==
    /\ call.pc = "awaiting"
    /\ \E awaited \in AwaitedOutcomes(call.out.fn) :
          \E processed \in {agent_process_resume(call.agent, call.data, awaited.out)} :
              call' = [call EXCEPT !.pc = "done",
                                   !.processed = processed,
                                   !.http = awaited.http,
                                   !.awaited = awaited.out,
                                   !.registered_at_return =
                                       Get(agents, call.agent_id, ""),
                                   !.steps = @ \o <<call.out.fn, "envelope">>,
                                   !.out = process_task_return(call.agent_id, processed)]
    /\ UNCHANGED <<agents, groq_connector, last, vectorstore, index_files>>

Next ==
    \/ \E reg \in Registrations : RegisterAgent(reg[1], reg[2])
    \/ \E agent_id \in AgentIds : UnregisterAgent(agent_id)
    \/ \E input \in TaskInputs : ProcessTask(input[1], input[2])
    \/ ProcessTaskResume

Spec == Init /\ [][Next]_vars

NextRegistry ==
    \/ \E agent_id \in AgentIds, agent \in AgentObjs : RegisterAgent(agent_id, agent)
    \/ \E agent_id \in AgentIds : UnregisterAgent(agent_id)
    \/ GetRegisteredAgents

SpecRegistry == Init /\ [][NextRegistry]_vars

\* the calls followed for the effect of process_task on the registry: one
\* that is suspended on generate, and one whose liveness check can pass,
\* fail or raise
FrameInputs ==
    {<<"code", [code |-> "x = 1", task_type |-> "correction"]>>,
     <<"rag", [query |-> "X"]>>}

\* the registry operations, the listing and the calls of process_task,
\* interleaved
NextFrame ==
    \/ \E reg \in Registrations : RegisterAgent(reg[1], reg[2])
    \/ \E agent_id \in AgentIds : UnregisterAgent(agent_id)
    \/ GetRegisteredAgents
    \/ \E input \in FrameInputs : ProcessTask(input[1], input[2])
    \/ ProcessTaskResume

SpecFrame == Init /\ [][NextFrame]_vars

-----------------------------------------------------------------------------
(* The HTTP layer (main.py) *)

\* the registry once main.py is imported
StartupAgents ==
    register_agent(
        register_agent(
            register_agent(
                register_agent(EmptyDict, "readme", "readme_generator"),
                "code", "code_assistant"),
            "debug", "debug_assistant"),
        "rag", "rag_agent")

\* the state in which the application serves its first request: the four
\* agents registered, the Groq adapter built when an API key is configured
InitApp ==
    /\ agents = StartupAgents
    /\ groq_connector \in {"None", "GroqConnector"}
    /\ last = [op |-> "init"]
    /\ call = IdleCall
    /\ vectorstore = None
    /\ index_files = EmptyDict

\* the requests served through process_task: the endpoint, the agent id its
\* handler passes, and the mapping it passes (request.dict(), or the mapping
\* built by /rag/process)
HttpRequests ==
    {<<"/readme/generate", "readme",
       [project_name |-> "Foo", project_description |-> "Bar"]>>,
     <<"/code/improve", "code", [code |-> "", task_type |-> "correction"]>>,
     <<"/code/improve", "code", [code |-> "x = 1", task_type |-> "correction"]>>,
     <<"/debug/analyze", "debug", [code |-> ""]>>,
     <<"/debug/analyze", "debug", [code |-> "x = 1", error_message |-> "NameError"]>>,
     <<"/rag/query", "rag", [query |-> "X", operation |-> "query"]>>,
     <<"/rag/query", "rag", [query |-> "X", operation |-> "save", index_path |-> "idx"]>>,
     <<"/rag/process", "rag", [operation |-> "process", file_path |-> "temp_doc.pdf"]>>}

\* the bodies posted to /code/debug
DebugRequests ==
    {[code |-> "", error_message |-> ""],
     [code |-> "x = 1", error_message |-> "NameError"]}

\* the endpoint whose handler calls process_task(agent_id, data)
EndpointOf(agent_id, data) ==
    CASE agent_id = "readme" -> "/readme/generate"
      [] agent_id = "code"   -> "/code/improve"
      [] agent_id = "debug"  -> "/debug/analyze"
      [] OTHER -> IF "file_path" \in DOMAIN data THEN "/rag/process"
                  ELSE "/rag/query"

\* str(e) of an HTTPException built with keyword arguments, as the installed
\* Starlette defines it: "status_code: detail" where the class has a __str__,
\* the empty string where it has none
StarletteBuilds == {"str_status_detail", "str_empty"}

HTTPException_str(build, status_code, detail) ==
    IF build = "str_status_detail" THEN status_code \o ": " \o detail ELSE ""

\* the response sent for an HTTPException(status_code=500, detail=detail)
\* that leaves the handler
ErrorResponse(detail) == [status_code |-> "500", detail |-> detail, body |-> None]

\* the body of a handler after its await, given the outcome of the call it
\* awaited: `if not result["success"]: raise HTTPException(...)` inside the
\* try, the value returned, and `except Exception as e` re-raising an
\* HTTPException with detail=str(e)
endpoint(path, awaited, build) ==
    IF awaited.kind = "raise" THEN ErrorResponse(awaited.exc)
    ELSE IF ~awaited.value.success
    THEN ErrorResponse(HTTPException_str(build, "500", awaited.value.message))
    ELSE [status_code |-> "200", detail |-> "",
          body |-> IF path \in {"/code/debug", "/rag/query", "/rag/process"}
                   THEN awaited.value ELSE awaited.value.result]

\* a handler awaiting process_task starts: the call runs to its return or to
\* its suspension
HttpRequest ==
    \E req \in HttpRequests : ProcessTask(req[2], req[3])

\* POST /code/debug: the handler awaits code_assistant.generate_debug_report
\* itself, which runs to its return or to the await of generate
DebugCode(body) ==
    /\ call.pc \in {"idle", "done"}
    /\ \E r \in {generate_debug_report(body.code, body.error_message)} :
          call' = [IdleCall EXCEPT
                      !.pc = IF r.kind = "await" THEN "awaiting_debug" ELSE "done",
                      !.data = body, !.agent = "code_assistant",
                      !.steps = <<"generate_debug_report">>,
                      !.out = r]
    /\ last' = [op |-> "debug_code"]
    /\ UNCHANGED <<agents, groq_connector, vectorstore, index_files>>

\* generate completes for the suspended generate_debug_report, which runs
\* to its return
DebugCodeResume ==
    /\ call.pc = "awaiting_debug"
    /\ \E awaited \in AwaitedOutcomes("generate") :
          call' = [call EXCEPT !.pc = "done",
                               !.http = awaited.http,
                               !.awaited = awaited.out,
                               !.steps = @ \o <<"generate">>,
                               !.out = generate_debug_report_resume(awaited.out)]
    /\ UNCHANGED <<agents, groq_connector, last, vectorstore, index_files>>

\* the awaited call has returned: the handler runs to its end and the
\* response is sent
HttpRespond ==
    /\ call.pc = "done"
    /\ last.op \in {"process_task", "debug_code"}
    /\ \E build \in StarletteBuilds :
          last' = [op |-> "http_response",
                   path |-> IF last.op = "debug_code" THEN "/code/debug"
                            ELSE EndpointOf(call.agent_id, call.data),
                   awaited |-> call.out,
                   response |-> endpoint(IF last.op = "debug_code" THEN "/code/debug"
                                         ELSE EndpointOf(call.agent_id, call.data),
                                         call.out, build)]
    /\ UNCHANGED <<agents, groq_connector, call, vectorstore, index_files>>

NextHttp ==
    \/ HttpRequest
    \/ ProcessTaskResume
    \/ \E body \in DebugRequests : DebugCode(body)
    \/ DebugCodeResume
    \/ HttpRespond

SpecHttp == InitApp /\ [][NextHttp]_vars

-----------------------------------------------------------------------------
(* Requests to the RAG agent in flight together *)

\* the requests of /rag/process and /rag/query as process_task receives them
RagRequests ==
    {[operation |-> "process", file_path |-> "temp_doc.pdf"],
     [operation |-> "process", file_path |-> "temp_other.pdf"],
     [operation |-> "query", query |-> "X"],
     [operation |-> "save", query |-> "X", index_path |-> "idx"],
     [operation |-> "load", query |-> "X", index_path |-> "idx"]}

\* the most requests in flight together
MaxInFlight == 3

\* what the libraries do in a call of the RAG agent: as LibOutcomes, and the
\* extraction of the images failing, which get_images_from_document turns
\* into an empty list
LibNoImages == [lib |-> "ok", chunks |-> 2, images |-> 0]
RagLibOutcomes == LibOutcomes \cup {LibNoImages}

\* requests arrive while none is in flight; their handlers are coroutines
\* of one event loop, started in an order the code does not fix
RagAccept ==
    /\ last.op = "init" \/ (last.op = "in_flight" /\ last.pending = {})
    /\ \E reqs \in SUBSET RagRequests :
          /\ Cardinality(reqs) \in 1..MaxInFlight
          /\ last' = [op |-> "in_flight", pending |-> reqs, served |-> <<>>,
                      vectorstore |-> vectorstore]
    /\ UNCHANGED <<agents, groq_connector, call, vectorstore, index_files>>

RagServe_snapshot(data) ==
    /\ last.op = "in_flight"
    /\ data \in last.pending
    /\ \E backend \in BackendStates, ext \in RagLibOutcomes :
          \E r \in {process_task(agents, groq_connector, "rag", data, backend,
                                 last.vectorstore, index_files, ext)} :
              /\ vectorstore' = r.vectorstore
              /\ index_files' = r.index_files
              /\ last' = [last EXCEPT
                              !.pending = @ \ {data},
                              !.served = Append(@,
                                  [data |-> data, out |-> r.out,
                                   vectorstore |-> vectorstore,
                                   index_files |-> index_files,
                                   vectorstore_after |-> r.vectorstore,
                                   index_files_after |-> r.index_files])]
    /\ UNCHANGED <<agents, groq_connector, call>>

\* the handler of one request in flight runs: no await of
\* process_task("rag", data) suspends (the methods of RAGAgent await nothing
\* but each other), so the call runs to its return before any other handler
RagServe(data) ==
    /\ last.op = "in_flight"
    /\ data \in last.pending
    /\ \E backend \in BackendStates, ext \in RagLibOutcomes :
          \E r \in {process_task(agents, groq_connector, "rag", data, backend,
                                 vectorstore, index_files, ext)} :
              /\ vectorstore' = r.vectorstore
              /\ index_files' = r.index_files
              /\ last' = [last EXCEPT
                              !.pending = @ \ {data},
                              !.served = Append(@,
                                  [data |-> data, out |-> r.out,
                                   vectorstore |-> vectorstore,
                                   index_files |-> index_files,
                                   vectorstore_after |-> r.vectorstore,
                                   index_files_after |-> r.index_files])]
    /\ UNCHANGED <<agents, groq_connector, call>>

NextRag ==
    \/ RagAccept
    \/ \E data \in RagRequests : RagServe(data)

SpecRag == InitApp /\ [][NextRag]_vars

\* the longest response parsed: long enough for two fenced blocks and a text
MaxLen == 7

\* the tokens of a response
Tokens == {FENCE, PY, WS, "x"}

\* the responses of the model, up to MaxLen tokens
Texts == UNION {[1..n -> Tokens] : n \in 0..MaxLen}

\* a text fenced as a python code block, as the prompts and the answers of
\* the model fence code: the fence and the word python, a newline, the
\* text, a newline, the fence
Fenced(code) == <<FENCE, PY, WS>> \o code \o <<WS, FENCE>>

\* CodeAssistant parses a response of the model with both of its parsers;
\* a behaviour follows one response
ParseResponse ==
    /\ last.op = "init"
    /\ \E response \in Texts :
          last' = [op |-> "parse", response |-> response,
                   llm |-> _parse_llm_response(response),
                   debug |-> _parse_debug_response(response)]
    /\ UNCHANGED <<agents, groq_connector, call, vectorstore, index_files>>

\* the improved code extracted from the response is fenced as a code block
\* and parsed again by _parse_llm_response
ReparseImprovedCode ==
    /\ last.op = "parse"
    /\ last' = [op |-> "reparse", response |-> last.response,
                improved_code |-> last.llm[1],
                again |-> _parse_llm_response(Fenced(last.llm[1]))]
    /\ UNCHANGED <<agents, groq_connector, call, vectorstore, index_files>>

NextParse ==
    \/ ParseResponse
    \/ ReparseImprovedCode

SpecParse == Init /\ [][NextParse]_vars

-----------------------------------------------------------------------------
(* Properties of process_task, checked under Spec *)

Range(seq) == {seq[i] : i \in DOMAIN seq}

Count(seq, x) == Cardinality({i \in DOMAIN seq : seq[i] = x})

\* the outcome o is an exception raised, or a value returned
Raised(o) == "exc" \in DOMAIN o
Returned(o) == "value" \in DOMAIN o

\* C1: whenever the adapter bound to the looked-up agent reports unavailable,
\* process_task returns an envelope with success=false and agent.process is
\* not invoked during the call
C1_UnavailableNeverDispatched ==
    call.adapter = "unavailable" =>
        /\ "process" \notin Range(call.steps)
        /\ call.pc = "done"
        /\ call.out.kind = "return"
        /\ call.out.value.success = FALSE

\* C2: process_task with an agent_id that is not a key of the registry
\* returns {success: false, message: not-found message naming the id,
\* result: null}, for every data, without calling check_status or process
C2_UnregisteredIdNotFound ==
    (last.op = "process_task" /\ ~last.registered) =>
        /\ call.pc = "done"
        /\ call.out = Return([success |-> FALSE,
                              message |-> "Agent non trouvé: " \o call.agent_id,
                              result |-> None])
        /\ "check_status" \notin Range(call.steps)
        /\ "process" \notin Range(call.steps)
        /\ call.status = None /\ call.processed = None

C2_Witness ==
    /\ last.op = "process_task" /\ ~last.registered
    /\ call.pc = "done"
    /\ call.agent_id = "rag" /\ call.data = [query |-> "X"]
    /\ DOMAIN agents = {"readme", "code", "debug"}

\* C3: process_task lets no exception escape: when agent.check_status() or
\* agent.process(data) raises, it returns the envelope {success: false,
\* message: description of the error, result: null}
C3_NoExceptionEscapes ==
    call.pc = "done" =>
        /\ call.out.kind = "return"
        /\ Raised(call.status) =>
              call.out.value = [success |-> FALSE,
                                message |-> "Erreur lors du traitement: "
                                            \o call.status.exc,
                                result |-> None]
        /\ Raised(call.processed) =>
              call.out.value = [success |-> FALSE,
                                message |-> "Erreur lors du traitement: "
                                            \o call.processed.exc,
                                result |-> None]

C3_Witness ==
    /\ call.pc = "done"
    /\ Raised(call.processed)
    /\ call.steps = <<"lookup", "check_status", "process", "work", "envelope">>

\* C4: every envelope process_task returns has exactly the fields success,
\* message and result, a non-empty message, and a null result when success
\* is false
C4_EnvelopeShape ==
    (call.pc = "done" /\ call.out.kind = "return") =>
        /\ DOMAIN call.out.value = {"success", "message", "result"}
        /\ call.out.value.success \in BOOLEAN
        /\ call.out.value.message # ""
        /\ ~call.out.value.success => call.out.value.result = None

C4_Witness ==
    /\ call.pc = "done"
    /\ call.adapter = "unavailable"
    /\ call.steps = <<"lookup", "check_status", "envelope">>
    /\ call.out.value.success = FALSE

\* C5: when agent.process(data) returns a value, process_task returns
\* success=true with result the very object returned, whatever its own
\* success flag
C5_ResultWrappedUnmodified ==
    (call.pc = "done" /\ Returned(call.processed)) =>
        /\ call.out.kind = "return"
        /\ call.out.value.success = TRUE
        /\ call.out.value.result = call.processed.value

C5_Witness ==
    /\ call.pc = "done"
    /\ Returned(call.processed)
    /\ call.processed.value.success = FALSE
    /\ call.out.value.success = TRUE

\* C6: the steps of a call occur in the order lookup, check_status, process,
\* envelope, each at most once; check_status only after a successful lookup,
\* process only after check_status passed; the call ends at the first
\* failing step
C6_StepsInOrder ==
    LET s == call.steps
        passed == Returned(call.status) /\ Truthy(call.status.value)
    IN  /\ \A x \in {"lookup", "check_status", "process", "envelope",
                      "generate", "work"} : Count(s, x) <= 1
        /\ call.pc # "idle" => s[1] = "lookup"
        /\ "check_status" \in Range(s) => (s[2] = "check_status" /\ call.agent # "")
        /\ "process" \in Range(s) =>
              (s[2] = "check_status" /\ s[3] = "process" /\ passed)
        /\ call.pc = "awaiting" => s = <<"lookup", "check_status", "process">>
        /\ call.pc = "done" => s[Len(s)] = "envelope"
        /\ (call.pc = "done" /\ call.agent = "") => s = <<"lookup", "envelope">>
        /\ (call.pc = "done" /\ call.agent # "" /\ ~passed) =>
              s = <<"lookup", "check_status", "envelope">>

C6_Witness ==
    /\ call.pc = "done"
    /\ call.adapter = "available"
    /\ call.steps = <<"lookup", "check_status", "process", "work", "envelope">>
    /\ call.out.value.success = TRUE

-----------------------------------------------------------------------------
(* Properties of the registry, checked under SpecRegistry *)

\* C7: get_registered_agents() holds exactly one descriptor for each id in
\* the registry and none for another id, with the name and the description
\* of the agent mapped to that id
C7_OneDescriptorPerId ==
    last.op = "get_registered_agents" =>
        LET listing == last.out.value
        IN  /\ \A id \in DOMAIN agents :
                  Cardinality({i \in DOMAIN listing : listing[i].id = id}) = 1
            /\ \A i \in DOMAIN listing :
                  /\ DOMAIN listing[i] = {"id", "name", "description"}
                  /\ listing[i].id \in DOMAIN agents
                  /\ listing[i].name = AgentName(agents[listing[i].id])
                  /\ listing[i].description = AgentDescription(agents[listing[i].id])

C7_Witness ==
    /\ last.op = "get_registered_agents"
    /\ Len(last.out.value) = 4
    /\ agents["code"] = "custom_agent"
    /\ agents["rag"] = "rag_agent"

\* C8 as stated: register_agent(id, agent) immediately followed by
\* unregister_agent(id) leaves the registry equal to its state before the
\* registration, also when id was registered before
C8_RoundTripRestores ==
    (last.op = "unregister_agent" /\ last.registered # None) =>
        agents = last.registered.before

\* C8 as amended: register_agent(id, agent) immediately followed by
\* unregister_agent(id) leaves the registry equal to its state before the
\* registration without the entry of id: it is restored when id was not
\* registered before, and an earlier entry of id is lost
C8_RoundTripRemovesId ==
    (last.op = "unregister_agent" /\ last.registered # None) =>
        /\ DOMAIN agents = DOMAIN last.registered.before \ {last.agent_id}
        /\ \A k \in DOMAIN agents : agents[k] = last.registered.before[k]
        /\ last.agent_id \notin DOMAIN last.registered.before =>
              agents = last.registered.before

C8_Witness ==
    /\ last.op = "unregister_agent" /\ last.registered # None
    /\ last.agent_id \in DOMAIN last.registered.before
    /\ last.registered.before[last.agent_id] # last.registered.agent
    /\ agents # EmptyDict
    /\ agents # last.registered.before

\* C9: register_agent(id, agent) maps id to agent and leaves the other
\* entries alone; it replaces an agent registered under id, without growing
\* the registry; calling it again with the same arguments changes nothing
C9_RegisterOverwrites ==
    last.op = "register_agent" =>
        /\ last.agent_id \in DOMAIN agents
        /\ agents[last.agent_id] = last.agent
        /\ DOMAIN agents = DOMAIN last.before \cup {last.agent_id}
        /\ \A k \in DOMAIN last.before \ {last.agent_id} : agents[k] = last.before[k]
        /\ last.agent_id \in DOMAIN last.before =>
              Cardinality(DOMAIN agents) = Cardinality(DOMAIN last.before)
        /\ (last.agent_id \in DOMAIN last.before
                /\ last.before[last.agent_id] = last.agent) => agents = last.before

C9_Witness ==
    /\ last.op = "register_agent"
    /\ last.agent_id \in DOMAIN last.before
    /\ last.before[last.agent_id] # last.agent
    /\ agents[last.agent_id] = last.agent

\* C10: unregister_agent(id) removes the entry of id when present and leaves
\* every other entry unchanged; when id is absent it leaves the registry
\* unchanged and does not raise
C10_UnregisterRemovesOnlyId ==
    last.op = "unregister_agent" =>
        /\ last.out = Return(None)
        /\ DOMAIN agents = DOMAIN last.before \ {last.agent_id}
        /\ \A k \in DOMAIN agents : agents[k] = last.before[k]
        /\ last.agent_id \notin DOMAIN last.before => agents = last.before

C10_Witness ==
    /\ last.op = "unregister_agent"
    /\ last.agent_id \in DOMAIN last.before
    /\ Cardinality(DOMAIN agents) = 2

C10_WitnessAbsent ==
    /\ last.op = "unregister_agent"
    /\ last.agent_id \notin DOMAIN last.before
    /\ agents # EmptyDict

-----------------------------------------------------------------------------
(* Properties of the agents and the adapters, checked under Spec *)

\* the instances of the four agent classes of the application
AppAgents == {"readme_generator", "code_assistant", "debug_assistant", "rag_agent"}

\* the call awaited the adapter's generate, which has completed
Generated == call.pc = "done" /\ "generate" \in Range(call.steps)

\* the prefixes of the messages the agents build from str(e)
ErrorPrefixes ==
    {"Erreur lors de l'amélioration du code: ",
     "Erreur lors de la génération du rapport de debug: ",
     "Erreur lors de la génération du README: ",
     "Error processing document: ", "Error saving index: ",
     "Error loading index: ", "Error processing query: "}

\* C11: process(data) of each of the four agents never raises: it returns a
\* mapping with success and message, and when the adapter's generate or a
\* document/index operation failed, the mapping has success=false and a
\* message describing the error
C11_AgentsNeverRaise ==
    (call.agent \in AppAgents /\ call.processed # None) =>
        /\ Returned(call.processed)
        /\ {"success", "message"} \subseteq DOMAIN call.processed.value
        /\ call.processed.value.message # ""
        /\ (Generated /\ Raised(call.awaited)) =>
              /\ call.processed.value.success = FALSE
              /\ \E prefix \in ErrorPrefixes :
                    call.processed.value.message = prefix \o call.awaited.exc
        /\ call.lib = LibError => call.processed.value.success = FALSE

C11_Witness ==
    /\ Generated /\ Raised(call.awaited)
    /\ call.agent = "code_assistant"
    /\ call.processed.value.success = FALSE
    /\ call.processed.value.message =
          "Erreur lors de l'amélioration du code: All connection attempts failed"

\* C12: the adapter's generate propagates a failure, and returns no text,
\* whenever the backend call failed or the JSON of the answer lacks the
\* "response" field
C12_GenerateFailurePropagates ==
    (Generated /\ (call.http.status = "error"
                     \/ "response" \notin DOMAIN call.http.json)) =>
        Raised(call.awaited)

\* C13 as stated: generate is invoked at most once per process_task call, and
\* when it fails the envelope process_task returns has success=false
C13_GenerateFailureFailsEnvelope ==
    /\ Count(call.steps, "generate") <= 1
    /\ (Generated /\ Raised(call.awaited)) => call.out.value.success = FALSE

\* C13 as amended: generate is invoked at most once per process_task call,
\* and when it fails the call ends at once with an envelope whose result is
\* the agent's mapping with success=false and the error in its message; the
\* envelope's own success is true
C13_GenerateFailureInInnerResult ==
    /\ Count(call.steps, "generate") <= 1
    /\ (Generated /\ Raised(call.awaited)) =>
          /\ call.steps = <<"lookup", "check_status", "process", "generate", "envelope">>
          /\ call.out.kind = "return"
          /\ call.out.value.success = TRUE
          /\ call.out.value.result = call.processed.value
          /\ call.out.value.result.success = FALSE
          /\ \E prefix \in ErrorPrefixes :
                call.out.value.result.message = prefix \o call.awaited.exc

C13_Witness ==
    /\ Generated /\ Raised(call.awaited)
    /\ call.agent = "readme_generator"
    /\ call.out.value.success = TRUE
    /\ call.out.value.result.success = FALSE

\* C14: check_status never raises, at the adapter level and at the agent
\* level; when the adapter's check meets an error (the backend is down or
\* does not list the model) the result is false; and the check issues no
\* generation call
C14_CheckStatusNeverRaises ==
    /\ \A backend \in BackendStates :
          /\ Returned(OllamaConnector_check_status(backend))
          /\ Returned(LLMConnector_check_status(backend))
    /\ call.status # None =>
          /\ Returned(call.status)
          /\ call.adapter = "unavailable" => call.status.value = PyBool(FALSE)
          /\ call.steps[3] # "generate"

\* C15: for every agent with an adapter bound, check_status() returns a
\* boolean, true exactly when the adapter's check reports the model available
C15_StatusEqualsAdapterVerdict ==
    (call.status # None /\ call.adapter \in {"available", "unavailable"}) =>
        call.status = Return(PyBool(call.adapter = "available"))

\* the liveness check of the call passed: `not agent.check_status()` is false
CheckPassed == Returned(call.status) /\ Truthy(call.status.value)

\* the conditions under which RAGAgent.process reaches its query path
QueryPath(data) ==
    LET operation == Get(data, "operation", "query")
    IN  /\ ~(operation = "process" /\ "file_path" \in DOMAIN data)
        /\ ~(operation \in {"save", "load"} /\ "index_path" \in DOMAIN data)

\* the call is answered by the agent that rejects its empty input: the
\* envelope has success=true around a result with success=false and the
\* message given, and generate was not awaited
RejectedByAgent(message) ==
    /\ call.out.kind = "return"
    /\ call.out.value.success = TRUE
    /\ call.out.value.result # None
    /\ call.out.value.result.success = FALSE
    /\ call.out.value.result.message = message
    /\ "generate" \notin Range(call.steps)

\* the calls of C16: a call has returned for the code or the debug agent
\* with an empty or missing code, or for the RAG agent with an empty or
\* missing query on its query path
EmptyInput(agent) ==
    /\ call.pc = "done" /\ call.agent = agent
    /\ IF agent = "rag_agent"
       THEN QueryPath(call.data) /\ Get(call.data, "query", "") = ""
       ELSE Get(call.data, "code", "") = ""

\* C16 as stated: process_task for the code agent with an empty or missing
\* code returns success=true around the agent's result with success=false and
\* message "Erreur: code manquant", without a generate call; the same shape
\* holds for the debug agent with empty code and for the RAG agent with an
\* empty or missing query
C16_EmptyInputAlwaysReachesAgent ==
    /\ EmptyInput("code_assistant") => RejectedByAgent("Erreur: code manquant")
    /\ EmptyInput("debug_assistant") => RejectedByAgent("Aucun code fourni à analyser.")
    /\ EmptyInput("rag_agent") =>
          (RejectedByAgent("No query provided") /\ call.out.value.result.answer = None)

\* C16 as amended: the same, for the calls whose liveness check passed; the
\* RAG agent rejects the empty query before any library call, so its
\* vector store and the saved indexes are those before the call
C16_EmptyInputRejectedByAgent ==
    CheckPassed =>
        /\ EmptyInput("code_assistant") => RejectedByAgent("Erreur: code manquant")
        /\ EmptyInput("debug_assistant") => RejectedByAgent("Aucun code fourni à analyser.")
        /\ EmptyInput("rag_agent") =>
              /\ RejectedByAgent("No query provided")
              /\ call.out.value.result.answer = None
              /\ call.steps = <<"lookup", "check_status", "process", "envelope">>

C16_Witness ==
    /\ EmptyInput("code_assistant") /\ CheckPassed
    /\ call.data = EmptyDict
    /\ RejectedByAgent("Erreur: code manquant")

C16_WitnessRag ==
    /\ EmptyInput("rag_agent") /\ CheckPassed
    /\ call.data = [query |-> ""]
    /\ call.lib = LibError
    /\ vectorstore # None
    /\ RejectedByAgent("No query provided")

\* C17: with the RAG agent registered under "rag", with a Groq connector or
\* with none, process_task("rag", {query: "X"}) made while no index is held
\* returns an envelope whose result is the agent's mapping with success=false
\* and answer=null (stated for the calls the adapter does not report
\* unavailable for)
C17_RagQueryBeforeAnyDocument ==
    (/\ call.pc = "done" /\ call.agent_id = "rag" /\ call.agent = "rag_agent"
     /\ call.data = [query |-> "X"]
     /\ vectorstore = None
     /\ call.adapter # "unavailable") =>
        /\ call.out.kind = "return"
        /\ call.out.value.result # None
        /\ call.out.value.result.success = FALSE
        /\ call.out.value.result.answer = None

\* the messages of save_index and of load_index for a path
SaveMessages(index_path) ==
    {"No index to save. Process a document first.",
     "Error saving index: " \o LibError.exc,
     "Index saved successfully to " \o index_path}

LoadMessages(index_path) ==
    {"Error loading index: " \o LibError.exc,
     "Error loading index: could not open " \o index_path,
     "Index loaded successfully from " \o index_path}

\* the operation of RAGAgent that built the result res for the request data
RanOperation(res, data) ==
    CASE "document_info" \in DOMAIN res -> "process"
      [] "answer" \in DOMAIN res -> "query"
      [] res.message \in SaveMessages(Get(data, "index_path", "")) -> "save"
      [] res.message \in LoadMessages(Get(data, "index_path", "")) -> "load"
      [] OTHER -> "none"

\* C18: RAGAgent.process runs process_document for operation "process",
\* save_index for "save", load_index for "load", and the query path for an
\* absent or other operation; "process", "save" and "load" are never
\* answered by the query path
C18_OperationDispatch ==
    (call.pc = "done" /\ call.agent = "rag_agent" /\ call.processed # None) =>
        LET operation == Get(call.data, "operation", "query")
            ran == RanOperation(call.processed.value, call.data)
        IN  IF operation \in {"process", "save", "load"}
            THEN ran = operation
            ELSE ran = "query"

\* C19: for process_task("readme", {project_name, project_description}) the
\* envelope has success=true, and its result has either success=true and a
\* non-empty content, or success=false and a message carrying the adapter's
\* error; success=true with an empty content does not occur
C19_ReadmeContentNonEmpty ==
    (call.pc = "done" /\ call.agent = "readme_generator" /\ call.processed # None) =>
        /\ call.out.kind = "return"
        /\ call.out.value.success = TRUE
        /\ \/ /\ call.out.value.result.success = TRUE
              /\ call.out.value.result.content # <<>>
           \/ /\ call.out.value.result.success = FALSE
              /\ Raised(call.awaited)
              /\ call.out.value.result.message =
                    "Erreur lors de la génération du README: " \o call.awaited.exc

\* the field that tells the result mappings of an agent class from those of
\* the others
ResultField(agent) ==
    CASE agent = "code_assistant"   -> "improved_code"
      [] agent = "debug_assistant"  -> "debug_report"
      [] agent = "readme_generator" -> "content"
      [] OTHER                      -> "message"

\* C28: a call suspended on agent.process has passed the lookup and the
\* liveness check and entered the dispatch without a suspension before; it
\* completes with the result of the agent instance it looked up, also when
\* the id was unregistered or registered to another agent while it was
\* suspended
C28_SuspendedCallKeepsItsAgent ==
    /\ call.pc = "awaiting" =>
          (call.steps = <<"lookup", "check_status", "process">> /\ CheckPassed)
    /\ (call.pc = "done" /\ call.awaited # None) =>
          /\ call.processed = agent_process_resume(call.agent, call.data, call.awaited)
          /\ Returned(call.processed) =>
                /\ ResultField(call.agent) \in DOMAIN call.processed.value
                /\ call.out = Return(Processed(call.agent_id, call.processed.value))

C28_Witness ==
    /\ call.pc = "done" /\ call.awaited # None
    /\ call.agent_id = "code" /\ call.agent = "code_assistant"
    /\ call.registered_at_return = "custom_agent"
    /\ call.out.value.success = TRUE
    /\ call.out.value.result.improved_code = <<"code">>

C28_WitnessUnregistered ==
    /\ call.pc = "done" /\ call.awaited # None
    /\ call.agent = "readme_generator"
    /\ call.registered_at_return = ""
    /\ call.out.value.result.content = <<"text">>

\* C30: for an agent with no adapter bound every process_task call returns a
\* failure envelope, success=false with a null result, and agent.process is
\* not invoked, whatever the data
C30_NoAdapterNeverDispatched ==
    call.adapter = "no adapter" =>
        /\ call.pc = "done"
        /\ call.out = Return([success |-> FALSE,
                              message |-> "Erreur lors du traitement: "
                                  \o "'NoneType' object has no attribute 'check_status'",
                              result |-> None])
        /\ "process" \notin Range(call.steps)
        /\ call.processed = None

C30_Witness ==
    /\ call.adapter = "no adapter"
    /\ call.agent = "rag_agent"
    /\ call.data = [operation |-> "process", file_path |-> "doc.pdf"]
    /\ call.out.value.success = FALSE
    /\ vectorstore = None

-----------------------------------------------------------------------------
(* Frame of process_task and get_registered_agents, checked under SpecFrame *)

\* C27: a step of process_task, from its call to its return through its
\* suspension, and a call of get_registered_agents leave the registry as it
\* is, whatever the outcome of the call
C27_RegistryUnchanged ==
    [][(call' # call \/ last'.op \in {"process_task", "get_registered_agents"})
          => agents' = agents]_vars

C27_Witness ==
    /\ last.op = "get_registered_agents"
    /\ Len(last.out.value) = Cardinality(DOMAIN agents)
    /\ DOMAIN agents = {"readme", "code", "debug"}
    /\ call.pc = "done" /\ call.agent_id = "rag"
    /\ call.out.value.success = FALSE

-----------------------------------------------------------------------------
(* Properties of the HTTP layer, checked under SpecHttp *)

\* C22: the response to a request served through process_task whose
\* envelope has success false is an error response whose detail is the
\* envelope's message, unaltered
C22_MessageSurfacedVerbatim ==
    (/\ last.op = "http_response"
     /\ last.path # "/code/debug"
     /\ Returned(last.awaited)
     /\ ~last.awaited.value.success)
        => /\ last.response.status_code = "500"
           /\ last.response.detail = last.awaited.value.message

\* C23: a request for which the adapter's generate has run went through
\* process_task, which looked the agent up and checked its liveness before
C23_GenerateOnlyThroughProcessTask ==
    "generate" \in Range(call.steps)
        => \E i, j \in DOMAIN call.steps :
              /\ i < j
              /\ call.steps[i] = "check_status"
              /\ call.steps[j] = "generate"

-----------------------------------------------------------------------------
(* Properties of the index of the RAG agent, checked under SpecRag *)

\* the requests served since the last arrival, in the order served
Served == IF last.op = "in_flight" THEN last.served ELSE <<>>

\* the method of RAGAgent that process runs for the request data
Operation(data) ==
    LET operation == Get(data, "operation", "query")
    IN  IF operation = "process" /\ "file_path" \in DOMAIN data THEN "process"
        ELSE IF operation \in {"save", "load"} /\ "index_path" \in DOMAIN data
        THEN operation
        ELSE "query"

\* the agent ran for the served request s, and what it returned
AgentRan(s) == s.out.value.result # None
Succeeded(s) == AgentRan(s) /\ s.out.value.result.success
Failed(s) == AgentRan(s) /\ ~s.out.value.result.success

\* C24: a successful load_index(p) served after a successful save_index(p),
\* with no other successful save to p between them, sets the index to the
\* one held at the save, and a query served next is answered from it; a
\* successful save writes the index held under p and nothing else;
\* save_index with no index held fails with "No index to save. Process a
\* document first." and writes nothing; no other operation writes
C24_SaveLoadRoundTrip ==
    /\ \A i, j \in DOMAIN Served :
          (/\ i < j
           /\ Operation(Served[i].data) = "save" /\ Succeeded(Served[i])
           /\ Operation(Served[j].data) = "load" /\ Succeeded(Served[j])
           /\ Served[i].data.index_path = Served[j].data.index_path
           /\ \A k \in (i + 1)..(j - 1) :
                 ~(Operation(Served[k].data) = "save" /\ Succeeded(Served[k])))
              => /\ Served[j].vectorstore_after = Served[i].vectorstore
                 /\ (/\ j + 1 \in DOMAIN Served
                     /\ Operation(Served[j + 1].data) = "query"
                     /\ Succeeded(Served[j + 1]))
                       => Served[j + 1].out.value.result.answer
                              = Str(<<"answer from", Served[i].vectorstore.built_from>>)
    /\ \A i \in DOMAIN Served :
          LET s == Served[i]
          IN  /\ (Operation(s.data) = "save" /\ Succeeded(s))
                    => s.index_files_after
                           = Upd(s.index_files, s.data.index_path, s.vectorstore)
              /\ (Operation(s.data) = "save" /\ AgentRan(s) /\ s.vectorstore = None)
                    => /\ ~s.out.value.result.success
                       /\ s.out.value.result.message
                              = "No index to save. Process a document first."
              /\ ~(Operation(s.data) = "save" /\ Succeeded(s))
                    => s.index_files_after = s.index_files

C24_Witness ==
    /\ Len(Served) = 3
    /\ Operation(Served[1].data) = "save" /\ Succeeded(Served[1])
    /\ Operation(Served[2].data) = "process" /\ Succeeded(Served[2])
    /\ Operation(Served[3].data) = "load" /\ Succeeded(Served[3])
    /\ Served[2].vectorstore_after # Served[1].vectorstore
    /\ vectorstore = Served[1].vectorstore

C24_WitnessNoIndex ==
    /\ Len(Served) >= 1
    /\ Operation(Served[1].data) = "save" /\ Failed(Served[1])
    /\ Served[1].vectorstore = None

\* the index held when the i-th request served starts: the one set by the
\* last successful build or load served before it, the one held when the
\* requests arrived if there is none
IndexAtTurn(i) ==
    LET builds == {k \in 1..(i - 1) :
                      /\ Operation(Served[k].data) \in {"process", "load"}
                      /\ Succeeded(Served[k])}
    IN  IF builds = {} THEN last.vectorstore
        ELSE LET k == CHOOSE k \in builds : \A m \in builds : m <= k
             IN  IF Operation(Served[k].data) = "process"
                 THEN Index(Served[k].data.file_path)
                 ELSE Served[k].index_files[Served[k].data.index_path]

\* C25: a query in flight together with a document processing is answered
\* from the index held at its turn: the one from before the processing when
\* the query is served first, the newly built one when the processing is
\* served first; nothing orders the two
C25_QueryAnsweredFromIndexAtItsTurn ==
    \A i \in DOMAIN Served :
        (Operation(Served[i].data) = "query" /\ Succeeded(Served[i]))
            => /\ IndexAtTurn(i) # None
               /\ Served[i].out.value.result.answer
                      = Str(<<"answer from", IndexAtTurn(i).built_from>>)

\* the query and the processing of temp_other.pdf arrived together while the
\* index built from temp_doc.pdf was held, and the query was served first
C25_Witness ==
    /\ Len(Served) = 2 /\ last.pending = {}
    /\ last.vectorstore = Index("temp_doc.pdf")
    /\ Operation(Served[1].data) = "query" /\ Succeeded(Served[1])
    /\ Served[2].data = [operation |-> "process", file_path |-> "temp_other.pdf"]
    /\ Succeeded(Served[2])
    /\ Served[1].out.value.result.answer = Str(<<"answer from", "temp_doc.pdf">>)

\* the same requests, the processing served first
C25_WitnessNewIndex ==
    /\ Len(Served) = 2 /\ last.pending = {}
    /\ last.vectorstore = Index("temp_doc.pdf")
    /\ Served[1].data = [operation |-> "process", file_path |-> "temp_other.pdf"]
    /\ Succeeded(Served[1])
    /\ Operation(Served[2].data) = "query" /\ Succeeded(Served[2])
    /\ Served[2].out.value.result.answer = Str(<<"answer from", "temp_other.pdf">>)

\* C29: the index changes only in a process_document or a load_index that
\* succeeds: a request the agent fails, or never runs for, leaves it as it
\* was, as do save_index and the query path; a successful process_document
\* sets it to the index built from the whole document
C29_IndexChangesOnlyOnSuccess ==
    \A i \in DOMAIN Served :
        LET s == Served[i]
        IN  /\ ~Succeeded(s) => s.vectorstore_after = s.vectorstore
            /\ Operation(s.data) \in {"save", "query"}
                  => s.vectorstore_after = s.vectorstore
            /\ (Operation(s.data) = "process" /\ Succeeded(s))
                  => s.vectorstore_after = Index(s.data.file_path)
            /\ (Operation(s.data) = "load" /\ Succeeded(s))
                  => s.vectorstore_after = s.index_files[s.data.index_path]

\* a processing fails while an index is held, and the query served next is
\* answered from that index
C29_Witness ==
    /\ Len(Served) >= 2
    /\ Operation(Served[1].data) = "process" /\ Failed(Served[1])
    /\ Served[1].vectorstore # None
    /\ Operation(Served[2].data) = "query" /\ Succeeded(Served[2])
    /\ Served[2].out.value.result.answer
          = Str(<<"answer from", Served[1].vectorstore.built_from>>)

-----------------------------------------------------------------------------
(* Properties of the parsers of CodeAssistant, checked under SpecParse *)

\* the text holds a fenced python block: an opening fence followed by the
\* word python, and a fence after it
HasFencedBlock(t) ==
    \E i \in 1..Len(t), j \in 1..Len(t) :
        /\ i + 2 <= j
        /\ t[i] = FENCE /\ t[i + 1] = PY /\ t[j] = FENCE

\* C20: when the response holds no fenced python block, _parse_llm_response
\* and _parse_debug_response both return the whole response, unchanged, as
\* their first field and the empty string as their second
C20_NoBlockFallback ==
    (last.op = "parse" /\ ~HasFencedBlock(last.response)) =>
        /\ last.llm = <<last.response, <<>>>>
        /\ last.debug = <<last.response, <<>>>>

C20_Witness ==
    /\ last.op = "parse"
    /\ last.response = <<WS, FENCE, PY, "x">>
    /\ last.llm = <<<<WS, FENCE, PY, "x">>, <<>>>>
    /\ last.debug = last.llm

\* C21 as stated: for every response, the improved code that
\* _parse_llm_response extracts from it, fenced as a python block and parsed
\* again, yields itself as improved code
C21_ReparseIdempotent ==
    last.op = "reparse" => last.again[1] = last.improved_code

\* C21 as amended: the same for the responses that hold a fenced python
\* block, and for the others when the response has no whitespace at its ends
\* and holds no fence
C21_ReparseIdempotentOnBlocks ==
    (/\ last.op = "reparse"
     /\ \/ HasFencedBlock(last.response)
        \/ /\ Strip(last.improved_code) = last.improved_code
           /\ FENCE \notin Range(last.improved_code)) =>
        last.again[1] = last.improved_code

C21_Witness ==
    /\ last.op = "reparse"
    /\ last.response = <<FENCE, PY, "x", WS, "x", FENCE>>
    /\ last.improved_code = <<"x", WS, "x">>
    /\ last.again[1] = <<"x", WS, "x">>

\* the fenced python blocks of a text from position from on, as successive
\* searches of the pattern find them, each after the end of the one before
RECURSIVE CodeBlocks(_, _)
CodeBlocks(t, from) ==
    LET opens == {i \in Openings(t) : i >= from /\ Closings(t, i) # {}}
    IN  IF opens = {} THEN <<>>
        ELSE LET i == Min(opens)
                 j == Min(Closings(t, i))
             IN  <<[start |-> i, end |-> j,
                    content |-> Strip(SubSeq(t, i + 2, j - 1))]>>
                     \o CodeBlocks(t, j + 1)

\* C26: for a response holding fenced python blocks, one or several,
\* _parse_llm_response returns as improved_code the stripped content of a
\* block, and as explanation the text after the last block, or the text
\* before the first block when that text is empty
C26_ExplanationAfterLastBlock ==
    (last.op = "parse" /\ HasFencedBlock(last.response)) =>
        LET r == last.response
            blocks == CodeBlocks(r, 1)
            after == Strip(SubSeq(r, blocks[Len(blocks)].end + 1, Len(r)))
            before == Strip(SubSeq(r, 1, blocks[1].start - 1))
        IN  /\ \E b \in DOMAIN blocks : last.llm[1] = blocks[b].content
            /\ last.llm[2] = IF after # <<>> THEN after ELSE before

====
